---- MODULE Spec2Model ----
(***************************************************************************)
(* NyaySetu lawyer directory: the LawyerProfile, service-city and          *)
(* ContactRequest tables (lawyer/models.py) and the request handlers of    *)
(* LawyerProfileViewSet and LawyerProfileSerializer (lawyer/views.py).     *)
(*                                                                         *)
(* The database is the shared state.  Every request is handled by a worker *)
(* slot; a handler is cut into steps at its database statements, so that   *)
(* the statements of concurrent requests interleave the way they can in a  *)
(* multi-worker deployment.  Text that the code lower-cases, searches or   *)
(* parses is a sequence of one-character strings.                          *)
(***************************************************************************)
EXTENDS Integers, Sequences, FiniteSets, Bags

\* ------------------------------------------------------------------ bounds
NSlots == 2         \* worker slots (requests in flight at once)
NCities == 5        \* rows of the City table
MaxCases == 5       \* no increment-cases request starts with a counter this high

\* program constant: validate_service_city_ids accepts at most this many ids
MaxServiceCities == 4

\* ------------------------------------------------------------------- text
UpperChars == <<"A","B","C","D","E","F","G","H","I","J","K","L","M",
                "N","O","P","Q","R","S","T","U","V","W","X","Y","Z">>
LowerChars == <<"a","b","c","d","e","f","g","h","i","j","k","l","m",
                "n","o","p","q","r","s","t","u","v","w","x","y","z">>
DigitChars == <<"0","1","2","3","4","5","6","7","8","9">>

Range(s) == {s[i] : i \in DOMAIN s}

\* str.lower() on one character
LowerChar(c) ==
    IF \E i \in DOMAIN UpperChars : UpperChars[i] = c
    THEN LowerChars[CHOOSE i \in DOMAIN UpperChars : UpperChars[i] = c]
    ELSE c

\* str.lower(); also the folding behind __iexact and __icontains
Lower(s) == [i \in 1..Len(s) |-> LowerChar(s[i])]

\* str.isdigit(): non-empty and every character a digit
IsDigit(s) == Len(s) > 0 /\ \A i \in 1..Len(s) : s[i] \in Range(DigitChars)

DigitVal(c) == (CHOOSE i \in DOMAIN DigitChars : DigitChars[i] = c) - 1

\* int() of a digit string
RECURSIVE ToInt(_)
ToInt(s) ==
    IF Len(s) = 0 THEN 0
    ELSE 10 * ToInt(SubSeq(s, 1, Len(s) - 1)) + DigitVal(s[Len(s)])

\* str() of a non-negative int
RECURSIVE IntToStr(_)
IntToStr(n) ==
    IF n < 10 THEN <<DigitChars[n + 1]>>
    ELSE IntToStr(n \div 10) \o <<DigitChars[(n % 10) + 1]>>

\* needle in hay
Contains(hay, needle) ==
    \E i \in 0..(Len(hay) - Len(needle)) : SubSeq(hay, i + 1, i + Len(needle)) = needle

\* field__icontains = needle ; a NULL column (None) never matches
IContains(opt, needle) == opt # <<>> /\ Contains(Lower(opt[1]), Lower(needle))

\* field__iexact = value
IExact(a, b) == Lower(a) = Lower(b)

\* an optional value: None, or Some(v)
None == <<>>
Some(v) == <<v>>

\* ------------------------------------------------------- request.data values
\* a JSON / form value of request.data: null (also: key missing), bool, int, str
JNull == [t |-> "null", b |-> FALSE, n |-> 0, s |-> <<>>]
JBool(x) == [t |-> "bool", b |-> x, n |-> 0, s |-> <<>>]
JInt(x) == [t |-> "int", b |-> FALSE, n |-> x, s |-> <<>>]
JStr(x) == [t |-> "str", b |-> FALSE, n |-> 0, s |-> x]

\* Python's str(value)
Str(v) ==
    CASE v.t = "null" -> <<"N","o","n","e">>
      [] v.t = "bool" -> IF v.b THEN <<"T","r","u","e">> ELSE <<"F","a","l","s","e">>
      [] v.t = "int" -> IntToStr(v.n)
      [] OTHER -> v.s

\* the flag without .lower()
WonFlagCased(won) == Str(won) \in {<<"t","r","u","e">>, <<"1">>, <<"y","e","s">>}

\* increment_cases: won_flag = str(won).lower() in {"true", "1", "yes"}
WonFlag(won) == Lower(Str(won)) \in {<<"t","r","u","e">>, <<"1">>, <<"y","e","s">>}

\* ------------------------------------------------------------- the database
VARIABLES
    lawyer_profile,   \* table LawyerProfile: a set of rows
    service_cities,   \* the many-to-many table: a bag of <<profile id, city id>>
    contact_request,  \* table ContactRequest: a bag of rows
    req               \* per worker slot, the request it handles and how far it is

vars == <<lawyer_profile, service_cities, contact_request, req>>

Slots == 1..NSlots
Anon == 0                       \* request.user of an unauthenticated caller
Users == {1, 2, 3}              \* rows of auth User
Callers == Users \cup {Anon}
CityIds == 1..NCities

\* auth User rows (first_name, last_name); not written by any handler modelled
FirstName(u) ==
    CASE u = 1 -> <<"A","s","h","a">> [] u = 2 -> <<"R","a","v","i">> [] OTHER -> <<"T","a","r","a">>
LastName(u) ==
    CASE u = 1 -> <<"R","a","o">> [] u = 2 -> <<"M","e","h","t","a">> [] OTHER -> <<"S","e","n">>

\* City rows: name is unique (case-sensitively), so "Pune" and "PUNE" may both exist
CityName(c) ==
    CASE c = 1 -> <<"D","e","l","h","i">>
      [] c = 2 -> <<"M","u","m","b","a","i">>
      [] c = 3 -> <<"P","u","n","e">>
      [] c = 4 -> <<"P","U","N","E">>
      [] c = 5 -> <<"A","g","r","a">>
      [] OTHER -> <<"C">> \o IntToStr(c)

\* the keys of SPECIALIZATIONS
SPECIALIZATIONS ==
    {"civil", "criminal", "family", "property", "corporate", "business", "contract",
     "banking", "competition", "insolvency", "administrative", "constitutional",
     "human_rights", "environmental", "international", "immigration",
     "intellectual_property", "cyber", "technology", "fintech", "media_entertainment",
     "labour_employment", "tax", "consumer_protection", "insurance", "maritime",
     "personal_injury", "space_air", "defense_military", "other"}

\* a LawyerProfile row.  bio stands for the nullable text columns (bio,
\* contact_number, address); rating is read by no handler modelled.
LawyerProfile(id, user, specialization, experience_years, license_number, bio, total_cases, won_cases) ==
    [id |-> id, user |-> user, specialization |-> specialization,
     experience_years |-> experience_years, license_number |-> license_number,
     bio |-> bio, total_cases |-> total_cases, won_cases |-> won_cases]

\* a ContactRequest row: status has default "pending" and no handler sets it
ContactRequest(user, lawyer) == [user |-> user, lawyer |-> lawyer, status |-> "pending"]

LicA == <<"L","I","C","-","A","1">>
LicB == <<"L","I","C","-","B","2">>
LicC == <<"L","I","C","-","C","3">>
BioA == <<"F","a","m","i","l","y"," ","l","a","w">>
BioNew == <<"N","e","w"," ","b","i","o">>

\* the profiles every run starts with: account 1 owns profile 1, account 2 owns
\* profile 2, account 3 owns none
Fixture(t, w) ==
    {LawyerProfile(1, 1, "family", 7, LicA, Some(BioA), t, w),
     LawyerProfile(2, 2, "civil", 3, LicB, None, 0, 0)}

ProfileIds(table) == {row.id : row \in table}
MissingPk == 9                  \* a pk no row has

\* Model.objects.filter(pk=pk): zero or one row
ByPk(table, pk) == {row \in table : row.id = pk}
\* user.lawyer_profile, the reverse side of the OneToOneField
ByUser(table, u) == {row \in table : row.user = u}

\* profile.service_cities.all() as a set of city ids
CitiesOf(rows, p) == {c \in CityIds : BagIn(<<p, c>>, rows)}

\* ------------------------------------------------------------ worker slots
NoPayload == << >>
NoParams == [specialization |-> None, city |-> None, min_experience |-> None, q |-> None]

IdleReq ==
    [pc |-> "idle", kind |-> "none", method |-> "NONE", user |-> Anon, pk |-> 0,
     won |-> JNull, city_id |-> 0, payload |-> NoPayload, params |-> NoParams,
     inst |-> {}, status |-> 0, detail |-> "", body |-> << >>]

\* the slot is ready for a request
Free(r) == req[r].pc = "idle"

\* the response has been sent; the worker waits for its next request
Finish(r) ==
    /\ req[r].pc = "done"
    /\ req' = [req EXCEPT ![r] = IdleReq]
    /\ UNCHANGED <<lawyer_profile, service_cities, contact_request>>

Respond(r, status, detail, body) ==
    req' = [req EXCEPT ![r] = [@ EXCEPT !.pc = "done", !.inst = {}, !.status = status,
                                        !.detail = detail, !.body = body]]

\* increment-cases requests on profile pk that have not yet written
PendingIncrements(pk) ==
    Cardinality({s \in Slots : req[s].kind = "increment_cases" /\ req[s].pk = pk
                               /\ req[s].pc \in {"inc_get", "inc_save"}})

\* ------------------------------------------------- increment_cases (195-205)
WonInputs ==
    {JNull, JBool(TRUE), JBool(FALSE), JInt(1), JInt(0),
     JStr(<<"t","r","u","e">>), JStr(<<"T","R","U","E">>), JStr(<<"Y","e","s">>),
     JStr(<<"1">>), JStr(<<"f","a","l","s","e">>), JStr(<<" ","t","r","u","e">>)}

\* POST {pk}/increment-cases {won}; permission_classes=[IsAuthenticated]
IncStart(r, callers, pks) ==
    /\ Free(r)
    /\ \E u \in callers, pk \in pks, won \in WonInputs :
         /\ \A row \in ByPk(lawyer_profile, pk) :
               /\ row.total_cases + PendingIncrements(pk) < MaxCases
               /\ row.won_cases + PendingIncrements(pk) < MaxCases
         /\ LET new == [IdleReq EXCEPT !.kind = "increment_cases", !.method = "POST",
                                       !.user = u, !.pk = pk, !.won = won]
            IN  req' = [req EXCEPT ![r] =
                          IF u = Anon
                          THEN [new EXCEPT !.pc = "done", !.status = 401]
                          ELSE [new EXCEPT !.pc = "inc_get"]]
    /\ UNCHANGED <<lawyer_profile, service_cities, contact_request>>

\* profile = self.get_object()
IncGet(r) ==
    /\ req[r].pc = "inc_get"
    /\ LET found == ByPk(lawyer_profile, req[r].pk)
       IN  IF found = {}
           THEN Respond(r, 404, "Not found.", << >>)
           ELSE req' = [req EXCEPT ![r] = [@ EXCEPT !.pc = "inc_save", !.inst = found]]
    /\ UNCHANGED <<lawyer_profile, service_cities, contact_request>>

\* an increment that counts a won case without counting the case
IncrementRowWonOnly(row, inst, won_flag) ==
    IF won_flag THEN [row EXCEPT !.won_cases = row.won_cases + 1]
    ELSE [row EXCEPT !.total_cases = row.total_cases + 1]

\* profile.save(update_fields=["total_cases", "won_cases"]): one UPDATE that sets
\* total_cases = total_cases + 1 from the row, and won_cases = won_cases + 1 from
\* the row when won_flag, else the won_cases attribute the instance was loaded with
IncrementRow(row, inst, won_flag) ==
    [row EXCEPT !.total_cases = row.total_cases + 1,
                !.won_cases = IF won_flag THEN row.won_cases + 1 ELSE inst.won_cases]

IncSave(r) ==
    /\ req[r].pc = "inc_save"
    /\ LET inst == CHOOSE i \in req[r].inst : TRUE
       IN  lawyer_profile' =
             {IF row.id = inst.id THEN IncrementRow(row, inst, WonFlag(req[r].won)) ELSE row
                : row \in lawyer_profile}
    /\ req' = [req EXCEPT ![r] = [@ EXCEPT !.pc = "inc_refresh"]]
    /\ UNCHANGED <<service_cities, contact_request>>

\* profile.refresh_from_db(); Response({"total_cases": ..., "won_cases": ...})
IncRefresh(r) ==
    /\ req[r].pc = "inc_refresh"
    /\ LET row == CHOOSE x \in ByPk(lawyer_profile, req[r].pk) : TRUE
       IN  Respond(r, 200, "", <<row.total_cases, row.won_cases>>)
    /\ UNCHANGED <<lawyer_profile, service_cities, contact_request>>

IncrementCases(r) == IncGet(r) \/ IncSave(r) \/ IncRefresh(r)

\* --------------------------------------------------------- contact (230-238)
\* the table without its UniqueConstraint
NoUniqueUserLawyer(table, row) == FALSE

\* UniqueConstraint(fields=["user", "lawyer"]): would inserting row break it
UniqueUserLawyer(table, row) ==
    \E old \in BagToSet(table) : old.user = row.user /\ old.lawyer = row.lawyer

\* POST {pk}/contact {message}; permission_classes=[IsAuthenticated].  The stored
\* message is the caller's text verbatim and is left out of the rows.
ContactStart(r, callers, pks) ==
    /\ Free(r)
    /\ \E u \in callers, pk \in pks :
         LET new == [IdleReq EXCEPT !.kind = "contact", !.method = "POST",
                                    !.user = u, !.pk = pk]
         IN  req' = [req EXCEPT ![r] =
                       IF u = Anon
                       THEN [new EXCEPT !.pc = "done", !.status = 401]
                       ELSE [new EXCEPT !.pc = "contact_get"]]
    /\ UNCHANGED <<lawyer_profile, service_cities, contact_request>>

\* lawyer = self.get_object()
ContactGet(r) ==
    /\ req[r].pc = "contact_get"
    /\ LET found == ByPk(lawyer_profile, req[r].pk)
       IN  IF found = {}
           THEN Respond(r, 404, "Not found.", << >>)
           ELSE req' = [req EXCEPT ![r] = [@ EXCEPT !.pc = "contact_create", !.inst = found]]
    /\ UNCHANGED <<lawyer_profile, service_cities, contact_request>>

\* ContactRequest.objects.create(...): the INSERT, or IntegrityError -> 400
ContactCreate(r) ==
    /\ req[r].pc = "contact_create"
    /\ LET row == ContactRequest(req[r].user, req[r].pk)
       IN  IF UniqueUserLawyer(contact_request, row)
           THEN /\ Respond(r, 400, "Request already sent.", << >>)
                /\ UNCHANGED contact_request
           ELSE /\ contact_request' = contact_request (+) SetToBag({row})
                /\ Respond(r, 201, row.status, << >>)
    /\ UNCHANGED <<lawyer_profile, service_cities>>

Contact(r) == ContactGet(r) \/ ContactCreate(r)

\* ------------------------------------------- add_city / remove_city (175-193)
\* add() without the look-up of the rows already there
AddCityAgain(rows, p, c) == rows (+) SetToBag({<<p, c>>})

\* profile.service_cities.add(city): inserts the row unless it is there
AddCity(rows, p, c) ==
    IF BagIn(<<p, c>>, rows) THEN rows ELSE rows (+) SetToBag({<<p, c>>})

\* profile.service_cities.remove(city): deletes the rows of the pair
RemoveCity(rows, p, c) ==
    [x \in (DOMAIN rows) \ {<<p, c>>} |-> rows[x]]

\* POST {pk}/add-city | remove-city {city_id}; permission_classes=[IsAuthenticated];
\* city_id 0 stands for a missing or empty city_id
CityStart(r, callers, pks) ==
    /\ Free(r)
    /\ \E u \in callers, pk \in pks, c \in 0..(NCities + 1),
          k \in {"add_city", "remove_city"} :
         LET new == [IdleReq EXCEPT !.kind = k, !.method = "POST", !.user = u,
                                    !.pk = pk, !.city_id = c]
         IN  req' = [req EXCEPT ![r] =
                       CASE u = Anon -> [new EXCEPT !.pc = "done", !.status = 401]
                         [] c = 0 -> [new EXCEPT !.pc = "done", !.status = 400,
                                                 !.detail = "city_id is required."]
                         [] OTHER -> [new EXCEPT !.pc = "city_get"]]
    /\ UNCHANGED <<lawyer_profile, service_cities, contact_request>>

\* city = get_object_or_404(City, pk=city_id); profile = self.get_object()
CityGet(r) ==
    /\ req[r].pc = "city_get"
    /\ LET found == ByPk(lawyer_profile, req[r].pk)
       IN  IF req[r].city_id \notin CityIds \/ found = {}
           THEN Respond(r, 404, "Not found.", << >>)
           ELSE req' = [req EXCEPT ![r] = [@ EXCEPT !.pc = "city_write", !.inst = found]]
    /\ UNCHANGED <<lawyer_profile, service_cities, contact_request>>

\* profile.service_cities.add(city) | .remove(city), and the response
CityWrite(r) ==
    /\ req[r].pc = "city_write"
    /\ IF req[r].kind = "add_city"
       THEN /\ service_cities' = AddCity(service_cities, req[r].pk, req[r].city_id)
            /\ Respond(r, 200, "added", <<req[r].city_id>>)
       ELSE /\ service_cities' = RemoveCity(service_cities, req[r].pk, req[r].city_id)
            /\ Respond(r, 200, "removed", <<req[r].city_id>>)
    /\ UNCHANGED <<lawyer_profile, contact_request>>

CityAction(r) == CityGet(r) \/ CityWrite(r)

\* ------------------------------------------- LawyerProfileSerializer (20-88)
\* request.data of a profile write: a function from some of these keys to values
Has(payload, key) == key \in DOMAIN payload

\* validate_service_city_ids: more than 4 ids is a ValidationError
ValidCityCount(ids) == ~(Len(ids) > 0 /\ Len(ids) > MaxServiceCities)

\* serializer.is_valid(): the field validators ModelSerializer derives from the
\* model (required license_number unless partial, unique license_number, the
\* specialization choices, non-negative integers), each service_city_id an
\* existing City, and validate_service_city_ids.  inst is the set holding the
\* instance being updated (empty on create).
IsValid(payload, inst, partial, table) ==
    /\ partial \/ Has(payload, "license_number")
    /\ Has(payload, "license_number") =>
         ~\E row \in table : /\ row.license_number = payload["license_number"]
                             /\ \A i \in inst : row.id # i.id
    /\ Has(payload, "specialization") => payload["specialization"] \in SPECIALIZATIONS
    /\ \A k \in {"experience_years", "total_cases", "won_cases"} :
         Has(payload, k) => payload[k] >= 0
    /\ Has(payload, "service_city_ids") =>
         /\ \A i \in DOMAIN payload["service_city_ids"] :
              payload["service_city_ids"][i] \in CityIds
         /\ ValidCityCount(payload["service_city_ids"])

\* for attr, value in validated_data.items(): setattr(instance, attr, value)
SetAttrs(inst, payload) ==
    [k \in DOMAIN inst |->
       IF k \in DOMAIN payload /\ k \notin {"id", "user"} THEN payload[k] ELSE inst[k]]

\* instance.service_cities.set(cities): afterwards the profile's rows are exactly
\* the given cities, one row each
SetCities(rows, p, ids) ==
    LET others == {x \in DOMAIN rows : x[1] # p}
        mine == {<<p, ids[i]>> : i \in DOMAIN ids}
    IN  [x \in others \cup mine |-> IF x \in others THEN rows[x] ELSE 1]

\* the keys of validated_data that serializer.save(**kwargs) hands to create():
\* {**self.validated_data, **kwargs}
SaveKeys(payload, kwargs) == ((DOMAIN payload) \ {"id", "user"}) \cup kwargs

\* LawyerProfile.objects.create(user=user, **validated_data) after
\* validated_data.pop("service_cities"): a key given twice is a TypeError
CreateCallRaises(keys) == "user" \in (keys \ {"service_city_ids"})

NextId(table) == IF table = {} THEN 1 ELSE 1 + CHOOSE m \in ProfileIds(table) :
                                                   \A i \in ProfileIds(table) : i <= m

\* the row objects.create() inserts: model defaults under the given values
NewRow(table, u, payload) ==
    SetAttrs(LawyerProfile(NextId(table), u, "other", 0, << >>, None, 0, 0), payload)

\* the unique constraints of the table: user (OneToOneField) and license_number
BreaksUnique(table, row) ==
    \E old \in table : old.id # row.id /\ (old.user = row.user
                                           \/ old.license_number = row.license_number)

\* the profile payloads the requests carry
PayloadsProfile ==
    {[bio |-> Some(BioNew)],
     [license_number |-> LicC, bio |-> Some(BioNew)],
     [license_number |-> LicA, service_city_ids |-> <<1>>],
     [specialization |-> "astrology"]}
PayloadsCities ==
    {[service_city_ids |-> <<1, 2, 3, 4>>],
     [service_city_ids |-> <<1, 2, 3, 4, 5>>],
     [service_city_ids |-> <<2, 2>>],
     [service_city_ids |-> << >>],
     [license_number |-> LicC, service_city_ids |-> <<5>>]}
PayloadsCases ==
    {[total_cases |-> 0, won_cases |-> 2],
     [total_cases |-> 2, won_cases |-> 2],
     [won_cases |-> 0 - 1],
     [license_number |-> LicC, total_cases |-> 1, service_city_ids |-> <<1>>]}

\* serializer.update(): instance.save() writes every column of the instance
\* (the row as loaded, with the payload's attributes set)
UpdSave(r) ==
    /\ req[r].pc = "upd_save"
    /\ LET inst == CHOOSE i \in req[r].inst : TRUE
           new == SetAttrs(inst, req[r].payload)
       IN  IF BreaksUnique(lawyer_profile, new)
           THEN /\ Respond(r, 500, "IntegrityError", << >>)
                /\ UNCHANGED lawyer_profile
           ELSE /\ lawyer_profile' = {IF row.id = new.id THEN new ELSE row
                                        : row \in lawyer_profile}
                /\ IF Has(req[r].payload, "service_city_ids")
                   THEN req' = [req EXCEPT ![r] = [@ EXCEPT !.pc = "upd_set"]]
                   ELSE Respond(r, 200, "", <<new.id>>)
    /\ UNCHANGED <<service_cities, contact_request>>

\* if cities is not None: instance.service_cities.set(cities)
UpdSet(r) ==
    /\ req[r].pc = "upd_set"
    /\ service_cities' = SetCities(service_cities, req[r].pk,
                                   req[r].payload["service_city_ids"])
    /\ Respond(r, 200, "", <<req[r].pk>>)
    /\ UNCHANGED <<lawyer_profile, contact_request>>

\* serializer.is_valid(raise_exception=True) of a write to an existing instance
UpdValid(r) ==
    /\ req[r].pc = "upd_valid"
    /\ IF IsValid(req[r].payload, req[r].inst, req[r].method = "PATCH", lawyer_profile)
       THEN req' = [req EXCEPT ![r] = [@ EXCEPT !.pc = "upd_save"]]
       ELSE Respond(r, 400, "ValidationError", << >>)
    /\ UNCHANGED <<lawyer_profile, service_cities, contact_request>>

\* ----------------------- PUT/PATCH {pk} (ModelViewSet of lines 119-121)
\* permission_classes=[IsAuthenticatedOrReadOnly]
UpdateStart(r, callers, pks, payloads) ==
    /\ Free(r)
    /\ \E u \in callers, pk \in pks, m \in {"PUT", "PATCH"},
          d \in payloads :
         LET new == [IdleReq EXCEPT !.kind = "update", !.method = m, !.user = u,
                                    !.pk = pk, !.payload = d]
         IN  req' = [req EXCEPT ![r] =
                       IF u = Anon
                       THEN [new EXCEPT !.pc = "done", !.status = 401]
                       ELSE [new EXCEPT !.pc = "upd_get"]]
    /\ UNCHANGED <<lawyer_profile, service_cities, contact_request>>

\* instance = self.get_object(): any row of get_queryset(), whoever owns it
UpdGet(r) ==
    /\ req[r].pc = "upd_get"
    /\ LET found == ByPk(lawyer_profile, req[r].pk)
       IN  IF found = {}
           THEN Respond(r, 404, "Not found.", << >>)
           ELSE req' = [req EXCEPT ![r] = [@ EXCEPT !.pc = "upd_valid", !.inst = found]]
    /\ UNCHANGED <<lawyer_profile, service_cities, contact_request>>

Update(r) == UpdGet(r) \/ UpdValid(r) \/ UpdSave(r) \/ UpdSet(r)

\* ------------------------------------------- serializer.create (62-74)
\* serializer.is_valid(raise_exception=True) of a create (no instance, not partial)
CreateValid(r) ==
    /\ req[r].pc = "crt_valid"
    /\ IF IsValid(req[r].payload, {}, FALSE, lawyer_profile)
       THEN req' = [req EXCEPT ![r] =
                      [@ EXCEPT !.pc = IF req[r].kind = "me" THEN "crt_create"
                                       ELSE "crt_check"]]
       ELSE Respond(r, 400, "ValidationError", << >>)
    /\ UNCHANGED <<lawyer_profile, service_cities, contact_request>>

\* serializer.save(user=...) -> create(validated_data).  hasattr(user,
\* "lawyer_profile") answers from the look-up the request already made (Django
\* caches it on the user object): req[r].inst.
SerializerCreate(r) ==
    /\ req[r].pc = "crt_create"
    /\ LET row == NewRow(lawyer_profile, req[r].user, req[r].payload)
       IN  CASE req[r].user = Anon ->
                  /\ Respond(r, 400, "Authentication required to create a profile.", << >>)
                  /\ UNCHANGED <<lawyer_profile, service_cities>>
             [] req[r].inst # {} ->
                  /\ Respond(r, 400, "Profile already exists for this user.", << >>)
                  /\ UNCHANGED <<lawyer_profile, service_cities>>
             [] CreateCallRaises(SaveKeys(req[r].payload, {"user"})) ->
                  /\ Respond(r, 500, "TypeError", << >>)
                  /\ UNCHANGED <<lawyer_profile, service_cities>>
             [] BreaksUnique(lawyer_profile, row) ->
                  /\ Respond(r, 500, "IntegrityError", << >>)
                  /\ UNCHANGED <<lawyer_profile, service_cities>>
             [] OTHER ->
                  /\ lawyer_profile' = lawyer_profile \cup {row}
                  /\ service_cities' =
                       IF Has(req[r].payload, "service_city_ids")
                       THEN SetCities(service_cities, row.id,
                                      req[r].payload["service_city_ids"])
                       ELSE service_cities
                  /\ Respond(r, 201, "", <<row.id>>)
    /\ UNCHANGED contact_request

\* ------------------------------------- POST collection: perform_create (156-162)
CreateStart(r, callers, payloads) ==
    /\ Free(r)
    /\ \E u \in callers, d \in payloads :
         LET new == [IdleReq EXCEPT !.kind = "create", !.method = "POST", !.user = u,
                                    !.payload = d]
         IN  req' = [req EXCEPT ![r] =
                       IF u = Anon
                       THEN [new EXCEPT !.pc = "done", !.status = 401]
                       ELSE [new EXCEPT !.pc = "crt_valid"]]
    /\ UNCHANGED <<lawyer_profile, service_cities, contact_request>>

\* perform_create: if hasattr(user, "lawyer_profile"): raise ValidationError
PerformCreate(r) ==
    /\ req[r].pc = "crt_check"
    /\ IF ByUser(lawyer_profile, req[r].user) # {}
       THEN Respond(r, 400, "Profile already exists for this user.", << >>)
       ELSE req' = [req EXCEPT ![r] = [@ EXCEPT !.pc = "crt_create"]]
    /\ UNCHANGED <<lawyer_profile, service_cities, contact_request>>

Create(r) == CreateValid(r) \/ PerformCreate(r) \/ SerializerCreate(r)

\* --------------------------------------------------------------- me (207-228)
MeStart(r, callers, payloads) ==
    /\ Free(r)
    /\ \E u \in callers, m \in {"GET", "PUT", "PATCH"}, d \in payloads :
         LET new == [IdleReq EXCEPT !.kind = "me", !.method = m, !.user = u,
                                    !.payload = IF m = "GET" THEN NoPayload ELSE d]
         IN  req' = [req EXCEPT ![r] =
                       IF u = Anon
                       THEN [new EXCEPT !.pc = "done", !.status = 401]
                       ELSE [new EXCEPT !.pc = "me_get"]]
    /\ UNCHANGED <<lawyer_profile, service_cities, contact_request>>

\* instance = request.user.lawyer_profile, or LawyerProfile.DoesNotExist
MeGet(r) ==
    /\ req[r].pc = "me_get"
    /\ LET found == ByUser(lawyer_profile, req[r].user)
       IN  CASE found = {} /\ req[r].method = "GET" ->
                  Respond(r, 404, "Profile not found.", << >>)
             [] found = {} /\ req[r].method # "GET" ->
                  req' = [req EXCEPT ![r] = [@ EXCEPT !.pc = "crt_valid"]]
             [] found # {} /\ req[r].method = "GET" ->
                  Respond(r, 200, "", <<(CHOOSE i \in found : TRUE).id>>)
             [] OTHER ->
                  req' = [req EXCEPT ![r] =
                            [@ EXCEPT !.pc = "upd_valid", !.inst = found,
                                      !.pk = (CHOOSE i \in found : TRUE).id]]
    /\ UNCHANGED <<lawyer_profile, service_cities, contact_request>>

Me(r) == MeGet(r)

\* ------------------------------------------------- get_queryset (123-154)
RECURSIVE Copies(_, _)
Copies(x, n) == IF n = 0 THEN << >> ELSE <<x>> \o Copies(x, n - 1)

RECURSIVE SumOver(_, _)
SumOver(f, S) ==
    IF S = {} THEN 0
    ELSE LET x == CHOOSE y \in S : TRUE IN f[x] + SumOver(f, S \ {x})

\* `if value:` on a query parameter: given and not empty
Truthy(opt) == opt # None /\ opt[1] # << >>
TruthyKey(opt) == opt # None /\ opt[1] # ""

\* does City row c satisfy service_cities__id=int(city) | service_cities__name__iexact=city
CityMatches(c, city) ==
    IF IsDigit(city) THEN c = ToInt(city) ELSE IExact(CityName(c), city)

\* qs.filter(service_cities__...): the join yields one row of the profile per
\* matching row of the many-to-many table
RECURSIVE JoinCities(_, _, _)
JoinCities(qs, rows, city) ==
    IF qs = << >> THEN << >>
    ELSE LET p == Head(qs)
             n == SumOver([c \in CityIds |->
                             IF CityMatches(c, city) THEN CopiesIn(<<p.id, c>>, rows) ELSE 0],
                          CityIds)
         IN  Copies(p, n) \o JoinCities(Tail(qs), rows, city)

\* Q(user__first_name__icontains=q) | Q(user__last_name__icontains=q)
\*   | Q(bio__icontains=q) | Q(license_number__icontains=q)
MatchesQ(p, q) ==
    \/ IContains(Some(FirstName(p.user)), q)
    \/ IContains(Some(LastName(p.user)), q)
    \/ IContains(p.bio, q)
    \/ IContains(Some(p.license_number), q)

\* the queryset returned without .distinct()
NotDistinct(qs) == qs

\* qs.distinct(): each row once
RECURSIVE Distinct(_)
Distinct(qs) ==
    IF qs = << >> THEN << >>
    ELSE LET rest == Distinct(SubSeq(qs, 1, Len(qs) - 1))
             last == qs[Len(qs)]
         IN  IF last \in Range(rest) THEN rest ELSE Append(rest, last)

\* LawyerProfile.objects...all(): the rows, here by ascending id
RECURSIVE AllRows(_)
AllRows(table) ==
    IF table = {} THEN << >>
    ELSE LET first == CHOOSE row \in table : \A other \in table : row.id <= other.id
         IN  <<first>> \o AllRows(table \ {first})

GetQueryset(table, rows, params) ==
    LET qs0 == AllRows(table)
        qs1 == IF TruthyKey(params.specialization)
               THEN SelectSeq(qs0, LAMBDA p : p.specialization = params.specialization[1])
               ELSE qs0
        qs2 == IF Truthy(params.city)
               THEN JoinCities(qs1, rows, params.city[1])
               ELSE qs1
        qs3 == IF Truthy(params.min_experience) /\ IsDigit(params.min_experience[1])
               THEN SelectSeq(qs2, LAMBDA p :
                                     p.experience_years >= ToInt(params.min_experience[1]))
               ELSE qs2
        qs4 == IF Truthy(params.q)
               THEN SelectSeq(qs3, LAMBDA p : MatchesQ(p, params.q[1]))
               ELSE qs3
    IN  Distinct(qs4)

SpecializationParams == {None, Some(""), Some("family"), Some("civil"), Some("tax")}
CityParams ==
    {None, Some(<<"1">>), Some(<<"3">>), Some(<<"0","5">>), Some(<<"p","u","n","e">>),
     Some(<<"D","E","L","H","I">>), Some(<<"G","o","a">>), Some(<< >>)}
MinExperienceParams == {None, Some(<<"5">>), Some(<<"3">>), Some(<<"1","0">>), Some(<<"a","b","c">>)}
QParams ==
    {None, Some(<<"R","A">>), Some(<<"l","i","c","-">>), Some(<<"l","a","w">>),
     Some(<<"z","z">>)}

\* GET collection ?specialization=&city=&min_experience=&q=   (readable by anyone)
ListStart(r) ==
    /\ Free(r)
    /\ \E sp \in SpecializationParams, c \in CityParams, m \in MinExperienceParams,
          q \in QParams :
         req' = [req EXCEPT ![r] =
                   [IdleReq EXCEPT !.kind = "list", !.method = "GET", !.pc = "list_get",
                                   !.params = [specialization |-> sp, city |-> c,
                                               min_experience |-> m, q |-> q]]]
    /\ UNCHANGED <<lawyer_profile, service_cities, contact_request>>

\* the list response: the ids of get_queryset()'s rows, in its order
List(r) ==
    /\ req[r].pc = "list_get"
    /\ LET qs == GetQueryset(lawyer_profile, service_cities, req[r].params)
       IN  Respond(r, 200, "", [i \in 1..Len(qs) |-> qs[i].id])
    /\ UNCHANGED <<lawyer_profile, service_cities, contact_request>>

\* ---------------------------------------------------------- specifications
InitTotal == 3
InitWon == 1
AnyPk == {1, 2, MissingPk}
OnePk == {1, MissingPk}

Start ==
    /\ lawyer_profile = Fixture(InitTotal, InitWon)
    /\ service_cities = EmptyBag
    /\ contact_request = EmptyBag
    /\ req = [r \in Slots |-> IdleReq]

\* one request at a time: profile writes (create, /me, update by id) by anyone
Init == Start
Next ==
    \E r \in {1} :
      \/ CreateStart(r, Callers, PayloadsProfile) \/ Create(r)
      \/ MeStart(r, Callers, PayloadsProfile) \/ Me(r)
      \/ UpdateStart(r, Callers, AnyPk, PayloadsProfile) \/ Update(r)
      \/ Finish(r)
Spec == Init /\ [][Next]_vars

\* concurrent creates: POST by an owner and by an account that owns no profile,
\* /me writes by the latter
InitCreate == Start
NextCreate ==
    \E r \in Slots :
      \/ CreateStart(r, {1, 3}, PayloadsProfile) \/ Create(r)
      \/ MeStart(r, {3}, PayloadsProfile) \/ Me(r)
      \/ Finish(r)
SpecCreate == InitCreate /\ [][NextCreate]_vars

\* concurrent increment-cases requests on one profile, one per slot
InitInc == Start
NextInc == \E r \in Slots : IncStart(r, {1, 2}, {1}) \/ IncrementCases(r)
SpecInc == InitInc /\ [][NextInc]_vars

\* concurrent contact requests; a slot takes the next request after responding
InitContact == Start
NextContact ==
    \E r \in Slots : ContactStart(r, Callers, AnyPk) \/ Contact(r) \/ Finish(r)
SpecContact == InitContact /\ [][NextContact]_vars

\* one request at a time: profile writes with service cities, add-city, remove-city
InitCities ==
    /\ lawyer_profile = Fixture(InitTotal, InitWon)
    /\ service_cities \in {EmptyBag, SetToBag({<<1, 1>>, <<1, 2>>, <<1, 3>>, <<2, 1>>})}
    /\ contact_request = EmptyBag
    /\ req = [r \in Slots |-> IdleReq]
NextCities ==
    \E r \in {1} :
      \/ CreateStart(r, Callers, PayloadsCities) \/ Create(r)
      \/ MeStart(r, Callers, PayloadsCities) \/ Me(r)
      \/ UpdateStart(r, Callers, OnePk, PayloadsCities) \/ Update(r)
      \/ CityStart(r, Callers, OnePk) \/ CityAction(r)
      \/ Finish(r)
SpecCities == InitCities /\ [][NextCities]_vars

\* one request at a time: profile writes with counters, increment-cases
InitCases ==
    /\ \E t \in {0, InitTotal} : lawyer_profile = Fixture(t, IF t = 0 THEN 0 ELSE InitWon)
    /\ service_cities = EmptyBag
    /\ contact_request = EmptyBag
    /\ req = [r \in Slots |-> IdleReq]
NextCases ==
    \E r \in {1} :
      \/ CreateStart(r, Callers, PayloadsCases) \/ Create(r)
      \/ MeStart(r, Callers, PayloadsCases) \/ Me(r)
      \/ UpdateStart(r, Callers, OnePk, PayloadsCases) \/ Update(r)
      \/ IncStart(r, Callers, OnePk) \/ IncrementCases(r)
      \/ Finish(r)
SpecCases == InitCases /\ [][NextCases]_vars

\* the directory list over a few directories
InitDir ==
    /\ \E e \in {3, 10}, b \in {None, Some(BioA)} :
         lawyer_profile = {LawyerProfile(1, 1, "family", 7, LicA, Some(BioA), 3, 1),
                           LawyerProfile(2, 2, "civil", e, LicB, b, 0, 0),
                           LawyerProfile(3, 3, "family", 5, LicC, None, 0, 0)}
    /\ service_cities \in {EmptyBag,
                           SetToBag({<<1, 3>>, <<1, 4>>, <<2, 1>>, <<3, 5>>}),
                           SetToBag({<<1, 1>>, <<2, 1>>, <<2, 3>>, <<3, 4>>})}
    /\ contact_request = EmptyBag
    /\ req = [r \in Slots |-> IdleReq]
NextDir == \E r \in {1} : ListStart(r) \/ List(r) \/ Finish(r)
SpecDir == InitDir /\ [][NextDir]_vars

\* ------------------------------------------------------------------ claims
Row(pk) == CHOOSE row \in lawyer_profile : row.id = pk
\* no request is in progress
Quiet == \A r \in Slots : req[r].pc \in {"idle", "done"}
\* completed increment-cases calls on profile pk, and those with a truthy won
Completed(pk) ==
    {r \in Slots : req[r].kind = "increment_cases" /\ req[r].pk = pk
                   /\ req[r].pc = "done" /\ req[r].status = 200}
CompletedWon(pk) == {r \in Completed(pk) : WonFlag(req[r].won)}

\* C1: once all of N concurrent increment-cases requests on a profile have
\* completed, W of them with a truthy won, total_cases has grown by exactly N and
\* won_cases by exactly W.
C1_NoLostIncrement ==
    Quiet =>
      /\ Row(1).total_cases = InitTotal + Cardinality(Completed(1))
      /\ Row(1).won_cases = InitWon + Cardinality(CompletedWon(1))

\* C2: at most one ContactRequest row per (account, lawyer) pair; the INSERT of a
\* contact call answers 201 "pending" and adds the row when the pair has none, and
\* answers 400 "Request already sent." leaving the table unchanged when it has one;
\* no contact call ends in an unhandled error.
PairRows(u, p) == {row \in BagToSet(contact_request) : row.user = u /\ row.lawyer = p}
PairCount(u, p) ==
    IF PairRows(u, p) = {} THEN 0
    ELSE CopiesIn(CHOOSE row \in PairRows(u, p) : TRUE, contact_request)
         + Cardinality(PairRows(u, p)) - 1
C2_ContactOnce ==
    /\ [](\A u \in Users, p \in {1, 2} : PairCount(u, p) <= 1)
    /\ [](\A r \in Slots : req[r].kind = "contact" /\ req[r].pc = "done"
                             => req[r].status \in {201, 400, 401, 404})
    /\ [][\A r \in Slots :
            req[r].pc = "contact_create" /\ req'[r].pc = "done" =>
              IF PairCount(req[r].user, req[r].pk) >= 1
              THEN /\ req'[r].status = 400
                   /\ req'[r].detail = "Request already sent."
                   /\ contact_request' = contact_request
              ELSE /\ req'[r].status = 201
                   /\ req'[r].detail = "pending"
                   /\ PairCount(req[r].user, req[r].pk)' = 1
                   /\ \A u \in Users, p \in {1, 2} :
                        <<u, p>> # <<req[r].user, req[r].pk>>
                          => PairCount(u, p)' = PairCount(u, p)]_vars

\* two calls for one pair have completed, the first with 201, the later with 400
C2_Witness ==
    \E r, s \in Slots :
      /\ r # s
      /\ req[r].kind = "contact" /\ req[r].pc = "done" /\ req[r].status = 201
      /\ req[s].kind = "contact" /\ req[s].pc = "done" /\ req[s].status = 400
      /\ req[r].user = req[s].user /\ req[r].pk = req[s].pk
      /\ PairCount(req[r].user, req[r].pk) = 1

\* a completed call that took the create path: POST collection, or a /me write
\* by a caller whose look-up found no profile
CreateCall(r) ==
    /\ req[r].pc = "done"
    /\ \/ req[r].kind = "create"
       \/ req[r].kind = "me" /\ req[r].method # "GET" /\ req[r].pk = 0

\* C3: each account owns at most one LawyerProfile, and creates by one account,
\* also when they run concurrently, end in the created profile or a structured
\* validation/conflict answer, never in an unhandled server error.
C3_CreateConflictStructured ==
    /\ \A u \in Users : Cardinality(ByUser(lawyer_profile, u)) <= 1
    /\ \A r, s \in Slots :
         r # s /\ CreateCall(r) /\ CreateCall(s) /\ req[r].user = req[s].user
           => /\ req[r].status \in {201, 400, 401}
              /\ req[s].status \in {201, 400, 401}
              /\ ~(req[r].status = 201 /\ req[s].status = 201)

\* the rows of the many-to-many table of one profile
CityRows(rows, p) == {x \in DOMAIN rows : x[1] = p}

\* C4: an update (PUT/PATCH by id, or a /me write) changes a profile's row or
\* its service cities only when the caller is the account that owns the profile.
C4_OwnerOnlyUpdate ==
    [][\A r \in Slots :
         req[r].pc \in {"upd_save", "upd_set"} /\ req'[r].pc # req[r].pc =>
           \A row \in lawyer_profile :
             (row \notin lawyer_profile'
              \/ CitiesOf(service_cities', row.id) # CitiesOf(service_cities, row.id))
               => row.user = req[r].user]_vars

\* C5: /me is get-or-create-on-write.  A caller with no profile gets 404 on GET
\* and, on PUT/PATCH with a valid payload, 201 and exactly one profile of theirs
\* holding the payload's fields and cities; a caller with a profile gets it on
\* GET and has that same profile updated on PUT/PATCH.
C5_MeUpsert ==
    \A r \in Slots :
      req[r].pc = "done" /\ req[r].kind = "me" /\ req[r].user # Anon =>
        LET mine == ByUser(lawyer_profile, req[r].user)
        IN  /\ Cardinality(mine) <= 1
            /\ req[r].method = "GET" =>
                 IF mine = {} THEN req[r].status = 404
                 ELSE req[r].status = 200 /\ req[r].body = <<(CHOOSE i \in mine : TRUE).id>>
            /\ req[r].method # "GET" /\ req[r].status # 400 =>
                 /\ req[r].status = IF req[r].pk = 0 THEN 201 ELSE 200
                 /\ \E row \in mine :
                      /\ row = SetAttrs(row, req[r].payload)
                      /\ Has(req[r].payload, "service_city_ids") =>
                           CitiesOf(service_cities, row.id)
                             = Range(req[r].payload["service_city_ids"])

\* C6: every LawyerProfile has between 0 and 4 service cities in every state
\* reached by profile create, update, /me write, add-city and remove-city calls.
C6_AtMostFourCities ==
    \A row \in lawyer_profile :
      Cardinality(CityRows(service_cities, row.id)) <= MaxServiceCities

\* C7: add-city and remove-city are idempotent set operations.  For every
\* profile and city: adding a present city and removing an absent one leave the
\* table as it is, add then remove of an absent city restores it, and no pair is
\* ever stored twice; a call answers 200 and changes the profile's city set by
\* exactly that city, and no profile row, no other profile's cities and no
\* contact request.
C7_CityLaws ==
    \A row \in lawyer_profile, c \in CityIds :
      /\ \A x \in DOMAIN service_cities : service_cities[x] = 1
      /\ c \in CitiesOf(service_cities, row.id)
           => AddCity(service_cities, row.id, c) = service_cities
      /\ c \notin CitiesOf(service_cities, row.id)
           => /\ RemoveCity(service_cities, row.id, c) = service_cities
              /\ RemoveCity(AddCity(service_cities, row.id, c), row.id, c) = service_cities
              /\ CitiesOf(AddCity(service_cities, row.id, c), row.id)
                   = CitiesOf(service_cities, row.id) \cup {c}
C7_CityCalls ==
    \A r \in Slots :
      req[r].pc = "city_write" /\ req'[r].pc = "done" =>
        /\ req'[r].status = 200
        /\ CitiesOf(service_cities', req[r].pk) =
             IF req[r].kind = "add_city"
             THEN CitiesOf(service_cities, req[r].pk) \cup {req[r].city_id}
             ELSE CitiesOf(service_cities, req[r].pk) \ {req[r].city_id}
        /\ \A row \in lawyer_profile :
             row.id # req[r].pk
               => CityRows(service_cities', row.id) = CityRows(service_cities, row.id)
        /\ lawyer_profile' = lawyer_profile
        /\ contact_request' = contact_request
C7_AddRemoveIdempotent == []C7_CityLaws /\ [][C7_CityCalls]_vars

\* an add-city call answered 200 for a city the profile serves beside others
C7_Witness ==
    \E r \in Slots :
      /\ req[r].pc = "done" /\ req[r].kind = "add_city" /\ req[r].status = 200
      /\ req[r].city_id \in CitiesOf(service_cities, req[r].pk)
      /\ Cardinality(CitiesOf(service_cities, req[r].pk)) >= 2
      /\ C7_CityLaws

\* the won inputs the claim counts as truthy: true, "true", "1", "yes" in any case
ClaimedTruthy(won) ==
    \/ won.t = "bool" /\ won.b
    \/ won.t = "str" /\ Lower(won.s) \in {<<"t","r","u","e">>, <<"1">>, <<"y","e","s">>}
\* and with the number 1, whose str() is "1"
AmendedTruthy(won) == ClaimedTruthy(won) \/ (won.t = "int" /\ won.n = 1)

\* what one increment-cases call does, given which inputs count as won
IncrementCall(r, truthy) ==
    /\ req[r].pc = "inc_save" /\ req'[r].pc = "inc_refresh" =>
         LET old == Row(req[r].pk)
             new == [old EXCEPT !.total_cases = old.total_cases + 1,
                                !.won_cases = old.won_cases + IF truthy THEN 1 ELSE 0]
         IN  /\ lawyer_profile' = (lawyer_profile \ {old}) \cup {new}
             /\ service_cities' = service_cities
             /\ contact_request' = contact_request
    /\ req[r].pc = "inc_refresh" /\ req'[r].pc = "done" =>
         /\ req'[r].status = 200
         /\ req'[r].body = <<Row(req[r].pk).total_cases, Row(req[r].pk).won_cases>>
         /\ UNCHANGED <<lawyer_profile, service_cities, contact_request>>

\* C8 as claimed: a single increment-cases call on (t, w) yields (t+1, w+1) when
\* won is true, "true", "1" or "yes" in any letter case and (t+1, w) for any other
\* or missing won; the response reports the new values; nothing else changes.
C8_ClaimedIncrement ==
    [][\A r \in Slots : IncrementCall(r, ClaimedTruthy(req[r].won))]_vars

\* C8 as amended: the same, with the number 1 counted as won too.
C8_Increment ==
    [][\A r \in Slots : IncrementCall(r, AmendedTruthy(req[r].won))]_vars

\* won="TRUE" on (3, 1) has answered (4, 2)
C8_Witness ==
    \E r \in Slots :
      /\ req[r].pc = "done" /\ req[r].kind = "increment_cases" /\ req[r].status = 200
      /\ req[r].won = JStr(<<"T","R","U","E">>)
      /\ req[r].body = <<InitTotal + 1, InitWon + 1>>
      /\ Row(req[r].pk).total_cases = InitTotal + 1
      /\ Row(req[r].pk).won_cases = InitWon + 1

\* C10 as claimed: won_cases <= total_cases for every profile in every state
\* reached by create, update, /me write and increment-cases calls.
C10_WonAtMostTotal ==
    \A row \in lawyer_profile : row.won_cases <= row.total_cases

\* C10 as amended: an increment-cases call that overlaps no other write keeps
\* won_cases <= total_cases on the profile it increments.
C10_IncrementPreserves ==
    [][\A r \in Slots :
         req[r].pc = "inc_save" /\ req'[r].pc = "inc_refresh" =>
           \A row \in lawyer_profile : \A new \in lawyer_profile' :
             new.id = row.id /\ row.won_cases <= row.total_cases
               => new.won_cases <= new.total_cases]_vars

\* a won increment has completed on a profile whose counters were equal
C10_Witness ==
    \E r \in Slots :
      /\ req[r].pc = "done" /\ req[r].kind = "increment_cases" /\ req[r].status = 200
      /\ WonFlag(req[r].won)
      /\ req[r].body = <<3, 3>>
      /\ Row(req[r].pk).won_cases = Row(req[r].pk).total_cases

\* the filter of the directory as the claim states it
Omitted(opt) == opt = None \/ opt[1] = << >>
ClaimedMatch(p, params) ==
    /\ (params.specialization = None \/ params.specialization[1] = ""
        \/ p.specialization = params.specialization[1])
    /\ (Omitted(params.city)
        \/ \E c \in CitiesOf(service_cities, p.id) :
             \/ IsDigit(params.city[1]) /\ c = ToInt(params.city[1])
             \/ Lower(CityName(c)) = Lower(params.city[1]))
    /\ (Omitted(params.min_experience) \/ ~IsDigit(params.min_experience[1])
        \/ p.experience_years >= ToInt(params.min_experience[1]))
    /\ (Omitted(params.q)
        \/ \E text \in {FirstName(p.user), LastName(p.user), p.license_number}
                         \cup Range(p.bio) :
             Contains(Lower(text), Lower(params.q[1])))

\* C9: the directory list returns exactly the profiles that satisfy every
\* supplied filter (specialization exact; city by numeric id or case-insensitive
\* name among the service cities; experience_years >= min_experience; q as a
\* case-insensitive substring of first name, last name, bio or license_number),
\* each profile once; an omitted parameter restricts nothing.
C9_DirectoryFilter ==
    \A r \in Slots :
      req[r].pc = "done" /\ req[r].kind = "list" =>
        /\ req[r].status = 200
        /\ \A i, j \in DOMAIN req[r].body : i # j => req[r].body[i] # req[r].body[j]
        /\ Range(req[r].body) = {p.id : p \in {x \in lawyer_profile :
                                                 ClaimedMatch(x, req[r].params)}}

\* profile 1 serves both "Pune" and "PUNE" and city=pune lists it once
C9_Witness ==
    \E r \in Slots :
      /\ req[r].pc = "done" /\ req[r].kind = "list"
      /\ req[r].params.city = Some(<<"p","u","n","e">>)
      /\ req[r].params.q = Some(<<"l","a","w">>)
      /\ {3, 4} \subseteq CitiesOf(service_cities, 1)
      /\ req[r].body = <<1>>

====
